---- MODULE Spec2Model ----
(***************************************************************************)
(* A model of the inventory dashboard (src/app.py): the spreadsheet        *)
(* tables, the cached reads, the reconciliation function                   *)
(* apply_completions_update_inventory and the two save handlers of the     *)
(* Orders page.                                                            *)
(*                                                                         *)
(* A spreadsheet cell read through get_as_dataframe is one of              *)
(*   - NaN        an empty cell (pandas reads it as a missing value),      *)
(*   - Txt(s)     a text, s a sequence of one-character strings,           *)
(*   - Num(n)     an integer.                                              *)
(* Text is kept as a sequence of characters so that str.strip() and        *)
(* str(NaN) = "nan" are computed, not assumed.                             *)
(***************************************************************************)
EXTENDS Integers, Sequences, FiniteSets, TLC

VARIABLES call, sheet, cache, sess, clock

vars == <<call, sheet, cache, sess, clock>>

-----------------------------------------------------------------------------
(* Cells and the string conversions of pandas / Python *)

NaN == [k |-> "nan", s |-> <<>>, n |-> 0]

Txt(s) == [k |-> "txt", s |-> s, n |-> 0]

Num(n) == [k |-> "num", s |-> <<>>, n |-> n]

IsNa(c) == c.k = "nan"

\* str(x) / Series.astype(str): a missing value becomes the text "nan".
\* (Text columns of the model hold no Num cell.)
AsStr(c) == IF c.k = "nan" THEN <<"n", "a", "n">> ELSE c.s

RECURSIVE LStrip(_)
LStrip(s) == IF s # <<>> /\ Head(s) = " " THEN LStrip(Tail(s)) ELSE s

RECURSIVE RStrip(_)
RStrip(s) ==
    IF s # <<>> /\ s[Len(s)] = " " THEN RStrip(SubSeq(s, 1, Len(s) - 1)) ELSE s

\* str.strip()
Strip(s) == RStrip(LStrip(s))

\* pd.to_numeric(errors="coerce").fillna(d).astype(int) on one cell
ToIntOr(c, d) == IF c.k = "num" THEN c.n ELSE d

Max(a, b) == IF a >= b THEN a ELSE b

-----------------------------------------------------------------------------
(* read_map_sheet: rows [JamlinerLength, BalanceSize, UnitsPerOrder] *)

AllNaMapRow(r) == IsNa(r.JamlinerLength) /\ IsNa(r.BalanceSize) /\ IsNa(r.UnitsPerOrder)

NormMapRow(r) ==
    [JamlinerLength |-> Txt(Strip(AsStr(r.JamlinerLength))),
     BalanceSize    |-> Txt(Strip(AsStr(r.BalanceSize))),
     UnitsPerOrder  |-> ToIntOr(r.UnitsPerOrder, 1)]

RECURSIVE MapSeq(_, _)
MapSeq(rows, i) ==
    IF i > Len(rows) THEN <<>>
    ELSE IF AllNaMapRow(rows[i]) THEN MapSeq(rows, i + 1)
    ELSE <<NormMapRow(rows[i])>> \o MapSeq(rows, i + 1)

read_map_sheet(rows) == MapSeq(rows, 1)

-----------------------------------------------------------------------------
(* apply_completions_update_inventory *)

\* m = map_df.dropna(subset=["JamlinerLength","BalanceSize"])
DropNaMap(map_df) ==
    SelectSeq(map_df, LAMBDA r : ~IsNa(r.JamlinerLength) /\ ~IsNa(r.BalanceSize))

MapKey(r) == Strip(AsStr(r.JamlinerLength))

\* the dict comprehension: a later row with the same key replaces an earlier one
MapLookup(map_df) ==
    LET m    == DropNaMap(map_df)
        keys == {MapKey(m[i]) : i \in DOMAIN m}
        last(key) == CHOOSE i \in DOMAIN m :
                        /\ MapKey(m[i]) = key
                        /\ \A j \in DOMAIN m : MapKey(m[j]) = key => j <= i
    IN  [key \in keys |->
            [balance_size |-> Strip(AsStr(m[last(key)].BalanceSize)),
             units_per    |-> m[last(key)].UnitsPerOrder]]

\* the positions of label v in the index built by set_index(col)
Loc(df, col, v) == {i \in DOMAIN df : df[i][col] = v}

\* df.loc[label, col] when the label is unique in the index
At(df, col, v, field) == df[CHOOSE i \in Loc(df, col, v) : TRUE][field]

\* was / now of one line; .loc on a duplicated label yields a Series and
\* bool(Series) raises ValueError
WasRaises(before, line_id) == Cardinality(Loc(before, "LineId", line_id)) > 1

Was(before, line_id) ==
    IF Loc(before, "LineId", line_id) = {} THEN FALSE
    ELSE At(before, "LineId", line_id, "Completed")

NowRaises(after, line_id) == Cardinality(Loc(after, "LineId", line_id)) > 1

\* variant: the flag before is ignored
IsNewlyCompletedIgnoringBefore(was, now) == now

IsNewlyCompleted(was, now) == (~was) /\ now

\* the detection loop over after.index, from row i on
RECURSIVE Detect(_, _, _, _)
Detect(before, after, i, changed) ==
    IF i > Len(after) THEN [raised |-> FALSE, changed |-> changed]
    ELSE LET line_id == after[i].LineId IN
         IF WasRaises(before, line_id) \/ NowRaises(after, line_id)
         THEN [raised |-> TRUE, changed |-> changed]
         ELSE IF IsNewlyCompleted(Was(before, line_id),
                                  At(after, "LineId", line_id, "Completed"))
              THEN Detect(before, after, i + 1, Append(changed, line_id))
              ELSE Detect(before, after, i + 1, changed)

\* variant: the line is skipped without a warning
WarnNothing(warnings, kind, line_id) == warnings

\* st.warning(...): one warning naming the skipped line
Warn(warnings, kind, line_id) == Append(warnings, [kind |-> kind, line |-> line_id])

\* variant: the multiplier is used as it is, without the floor of 1
TotalConsumeNoFloor(qty, units_per) == qty * units_per

TotalConsume(qty, units_per) == qty * Max(units_per, 1)

\* variant: only a negative quantity is skipped
SkipsNegativeQtyOnly(qty) == qty < 0

SkipsQty(qty) == qty <= 0

\* inv.loc[balance_size, "OnHand"] = cur - total_consume
Decrement(inv, balance_size, total_consume) ==
    [i \in DOMAIN inv |->
        IF inv[i].Item = Txt(balance_size)
        THEN [inv[i] EXCEPT !.OnHand = @ - total_consume]
        ELSE inv[i]]

\* the decrement loop over changed, from position k on
RECURSIVE Apply(_, _, _, _, _, _)
Apply(after, map_lookup, changed, k, inv, warnings) ==
    IF k > Len(changed) THEN [raised |-> FALSE, inv |-> inv, warnings |-> warnings]
    ELSE
    LET line_id  == changed[k]
        jamliner == Strip(AsStr(At(after, "LineId", line_id, "SKU")))
        qty      == At(after, "LineId", line_id, "Qty")
    IN
    IF SkipsQty(qty) THEN Apply(after, map_lookup, changed, k + 1, inv, warnings)
    ELSE IF jamliner \notin DOMAIN map_lookup
    THEN Apply(after, map_lookup, changed, k + 1, inv,
               Warn(warnings, "no_map", line_id))
    ELSE
    LET balance_size  == map_lookup[jamliner].balance_size
        total_consume == TotalConsume(qty, map_lookup[jamliner].units_per)
        hits          == Loc(inv, "Item", Txt(balance_size))
    IN
    IF hits = {}
    THEN Apply(after, map_lookup, changed, k + 1, inv,
               Warn(warnings, "no_balance", line_id))
    ELSE IF Cardinality(hits) > 1
    \* int(inv.loc[balance_size, "OnHand"]) on a Series raises TypeError
    THEN [raised |-> TRUE, inv |-> inv, warnings |-> warnings]
    ELSE Apply(after, map_lookup, changed, k + 1,
               Decrement(inv, balance_size, total_consume), warnings)

\* variant: strictly below the reorder level
LowStockStrict(r) == r.OnHand < r.MinLevel

LowStockOf(r) == r.OnHand <= r.MinLevel

\* out = inv.reset_index(); out["LowStock"] = out["OnHand"] <= out["MinLevel"]
RecomputeLowStock(inv) ==
    [i \in DOMAIN inv |-> [inv[i] EXCEPT !.LowStock = LowStockOf(inv[i])]]

apply_completions_update_inventory(orders_before, orders_after, inventory_df, map_df) ==
    LET d == Detect(orders_before, orders_after, 1, <<>>) IN
    IF d.raised
    THEN [status |-> "raised", out |-> <<>>, warnings |-> <<>>]
    ELSE LET a == Apply(orders_after, MapLookup(map_df), d.changed, 1,
                        inventory_df, <<>>) IN
         IF a.raised
         THEN [status |-> "raised", out |-> <<>>, warnings |-> a.warnings]
         ELSE [status |-> "returned", out |-> RecomputeLowStock(a.inv),
               warnings |-> a.warnings]

-----------------------------------------------------------------------------
(* write_inventory_sheet: the columns that reach the sheet *)

\* out = df[["Item", "SKU", "OnHand", "MinLevel"]]
InventoryOut(df) ==
    [i \in DOMAIN df |->
        [Item |-> df[i].Item, SKU |-> df[i].SKU, OnHand |-> df[i].OnHand,
         MinLevel |-> df[i].MinLevel]]

-----------------------------------------------------------------------------
(* The calls of apply_completions_update_inventory that are checked.        *)
(* A batch has one or two rows; the second row either has its own LineId or *)
(* repeats the first row's.  Quantities range over -1..MaxQty, the units    *)
(* of a Map row over an empty cell, 0 and MaxUnits.                         *)

MaxQty == 2

MaxUnits == 2

OnHandA == 5

OnHandB == 3

MinLevelA == 2

MinLevelB == 3

SkuCells == {NaN, Txt(<<" ">>), Txt(<<" ", "J">>), Txt(<<"K">>)}

LineChoices ==
    [SKU : SkuCells, Qty : (-1)..MaxQty, now : BOOLEAN, was : {"absent", "F", "T"}]

OrderRow(id, c, completed) ==
    [LineId |-> id, SKU |-> c.SKU, Qty |-> c.Qty, Completed |-> completed,
     CompletedAt |-> NaN]

\* orders_after of a batch: row i has LineId ids[i]
AfterOf(cs, ids) == [i \in DOMAIN cs |-> OrderRow(ids[i], cs[i], cs[i].now)]

RECURSIVE BeforeFrom(_, _, _)
BeforeFrom(cs, ids, i) ==
    IF i > Len(cs) THEN <<>>
    ELSE IF cs[i].was = "absent" THEN BeforeFrom(cs, ids, i + 1)
    ELSE <<OrderRow(ids[i], cs[i], cs[i].was = "T")>> \o BeforeFrom(cs, ids, i + 1)

\* orders_before of a batch: the rows that existed before, with their old flag
BeforeOf(cs, ids) == BeforeFrom(cs, ids, 1)

Batches ==
    {<<<<c>>, <<1>>>> : c \in LineChoices}
    \cup {<<<<c1, c2>>, <<1, id2>>>> : c1 \in LineChoices, c2 \in LineChoices, id2 \in {1, 2}}

InvRow(item, onHand, minLevel) ==
    [Item |-> item, SKU |-> Txt(<<"J">>), OnHand |-> onHand, MinLevel |-> minLevel,
     LowStock |-> onHand <= minLevel]

\* two records; the second either is balance size B or repeats balance size A
Inventories ==
    {<<InvRow(Txt(<<"A">>), OnHandA, MinLevelA), InvRow(item2, OnHandB, MinLevelB)>> :
        item2 \in {Txt(<<"A">>), Txt(<<"B">>)}}

\* the first Map row, for "J": its balance size and its units cell (empty,
\* invalid or valid); balance size C is in no inventory
JRows ==
    {<<Txt(<<"A">>), NaN>>, <<Txt(<<"A">>), Num(0)>>, <<Txt(<<"A">>), Num(MaxUnits)>>,
     <<Txt(<<"C">>), Num(MaxUnits)>>}

\* the Map sheet: the row for "J" and a row whose key cell is empty or blank
MapSheets ==
    {<<[JamlinerLength |-> Txt(<<"J", " ">>), BalanceSize |-> j[1], UnitsPerOrder |-> j[2]],
       [JamlinerLength |-> k2, BalanceSize |-> Txt(<<" ", "B">>), UnitsPerOrder |-> Num(1)]>> :
        j \in JRows, k2 \in {NaN, Txt(<<" ">>)}}

Pending == [status |-> "pending", out |-> <<>>, warnings |-> <<>>]

NoCall ==
    [orders_before |-> <<>>, orders_after |-> <<>>, inventory_df |-> <<>>,
     map_df |-> <<>>, res |-> Pending]

\* the system part of the state, unused by the reconciliation calls
SystemIdle ==
    /\ sheet = <<>>
    /\ cache = <<>>
    /\ sess = <<>>
    /\ clock = 0

InitReconcile ==
    /\ \E b \in Batches, inv \in Inventories, ms \in MapSheets :
          call = [orders_before |-> BeforeOf(b[1], b[2]),
                  orders_after  |-> AfterOf(b[1], b[2]),
                  inventory_df  |-> inv,
                  map_df        |-> read_map_sheet(ms),
                  res           |-> Pending]
    /\ SystemIdle

Reconcile ==
    /\ call.res.status = "pending"
    /\ call' = [call EXCEPT !.res =
                  apply_completions_update_inventory(call.orders_before, call.orders_after,
                                                     call.inventory_df, call.map_df)]
    /\ UNCHANGED <<sheet, cache, sess, clock>>

NextReconcile == Reconcile

SpecReconcile == InitReconcile /\ [][NextReconcile]_vars

-----------------------------------------------------------------------------
(* Properties of one call of apply_completions_update_inventory *)

Returned == call.res.status = "returned"

\* the rows of the batch, as the claims speak of them
LineWas(i) ==
    \E j \in DOMAIN call.orders_before :
        /\ call.orders_before[j].LineId = call.orders_after[i].LineId
        /\ call.orders_before[j].Completed

LineNewlyCompleted(i) == ~LineWas(i) /\ call.orders_after[i].Completed

LineSkuText(i) == Strip(AsStr(call.orders_after[i].SKU))

\* the Map rows whose key is the line's sku
LineMapRows(i) ==
    {j \in DOMAIN call.map_df : call.map_df[j].JamlinerLength = Txt(LineSkuText(i))}

LineHasMapping(i) == LineMapRows(i) # {}

LineMapRow(i) == call.map_df[CHOOSE j \in LineMapRows(i) : \A h \in LineMapRows(i) : h <= j]

LineHasBalance(i) ==
    /\ LineHasMapping(i)
    /\ \E r \in DOMAIN call.inventory_df :
          call.inventory_df[r].Item = LineMapRow(i).BalanceSize

\* an invalid or missing unitsPerOrder counts as 1
LineUnits(i) ==
    IF LineMapRow(i).UnitsPerOrder >= 1 THEN LineMapRow(i).UnitsPerOrder ELSE 1

\* the sku cell holds a text that is not blank
LineSkuPresent(i) == ~IsNa(call.orders_after[i].SKU) /\ LineSkuText(i) # <<>>

LineConsumes(i, item) ==
    /\ LineNewlyCompleted(i)
    /\ call.orders_after[i].Qty > 0
    /\ LineHasMapping(i)
    /\ LineMapRow(i).BalanceSize = item

RECURSIVE ConsumedUpTo(_, _)
ConsumedUpTo(item, n) ==
    IF n = 0 THEN 0
    ELSE ConsumedUpTo(item, n - 1)
         + (IF LineConsumes(n, item) THEN call.orders_after[n].Qty * LineUnits(n) ELSE 0)

Consumed(item) == ConsumedUpTo(item, Len(call.orders_after))

(* C1: after reconcile every inventory record's onHand is its onHand before
   minus the sum of qty * unitsPerOrder over the newly-completed lines with
   qty > 0 whose sku maps to the record's balance size (an invalid or missing
   unitsPerOrder counting as 1); the decrements of several lines accumulate
   and onHand is not clamped at zero. *)
C1_OnHandIsBeforeMinusConsumed ==
    Returned =>
        /\ Len(call.res.out) = Len(call.inventory_df)
        /\ \A r \in DOMAIN call.inventory_df :
              call.res.out[r].OnHand =
                  call.inventory_df[r].OnHand - Consumed(call.inventory_df[r].Item)

\* two lines of one batch consume the same balance size and drive it below zero
C1_Witness ==
    /\ Returned
    /\ Len(call.orders_after) = 2
    /\ LineSkuPresent(1) /\ LineSkuPresent(2)
    /\ \E r \in DOMAIN call.inventory_df :
          /\ LineConsumes(1, call.inventory_df[r].Item)
          /\ LineConsumes(2, call.inventory_df[r].Item)
          /\ call.res.out[r].OnHand < 0
          /\ call.res.out[r].OnHand =
                call.inventory_df[r].OnHand
                - call.orders_after[1].Qty * LineUnits(1)
                - call.orders_after[2].Qty * LineUnits(2)

\* the lines the detection loop reports
DetectedLines == Detect(call.orders_before, call.orders_after, 1, <<>>).changed

OnHandUnchanged ==
    \A r \in DOMAIN call.inventory_df :
        call.res.out[r].OnHand = call.inventory_df[r].OnHand

(* C2: a line of ordersAfter is reported as newly completed iff its flag is
   false before (false when the line is absent before) and true after; with
   no such line every onHand is unchanged, and no onHand ever grows (an
   un-completed line credits nothing back). *)
C2_DetectsExactlyFalseToTrue ==
    Returned =>
        /\ \A i \in DOMAIN call.orders_after :
              (\E k \in DOMAIN DetectedLines :
                    DetectedLines[k] = call.orders_after[i].LineId)
              <=> LineNewlyCompleted(i)
        /\ (\A i \in DOMAIN call.orders_after : ~LineNewlyCompleted(i)) => OnHandUnchanged
        /\ \A r \in DOMAIN call.inventory_df :
              call.res.out[r].OnHand <= call.inventory_df[r].OnHand

\* one line is un-completed, the other was complete already; both would consume
C2_Witness ==
    /\ Returned
    /\ Len(call.orders_after) = 2
    /\ LineWas(1) /\ ~call.orders_after[1].Completed
    /\ LineWas(2) /\ call.orders_after[2].Completed
    /\ \A i \in {1, 2} :
          /\ LineSkuPresent(i) /\ LineHasBalance(i) /\ call.orders_after[i].Qty > 0
    /\ DetectedLines = <<>>
    /\ OnHandUnchanged

WithoutLine(df, line_id) == SelectSeq(df, LAMBDA r : r.LineId # line_id)

\* the same call with one line taken out of the batch
CallWithout(line_id) ==
    apply_completions_update_inventory(WithoutLine(call.orders_before, line_id),
                                       WithoutLine(call.orders_after, line_id),
                                       call.inventory_df, call.map_df)

WarningsFor(line_id) ==
    {k \in DOMAIN call.res.warnings : call.res.warnings[k].line = line_id}

LineMisses(i) ==
    /\ LineNewlyCompleted(i)
    /\ call.orders_after[i].Qty > 0
    /\ ~LineHasBalance(i)

(* C4: a newly-completed line with qty > 0 whose sku has no Map entry, or
   whose balance size is no inventory key, gets exactly one warning, changes
   no onHand, and the rest of the batch is processed as if the line were
   absent. *)
C4_MissWarnsOnceAndBatchContinues ==
    Returned =>
        \A i \in DOMAIN call.orders_after :
            LineMisses(i) =>
                LET line_id == call.orders_after[i].LineId IN
                /\ Cardinality(WarningsFor(line_id)) = 1
                /\ \A k \in WarningsFor(line_id) :
                      call.res.warnings[k].kind =
                          IF LineHasMapping(i) THEN "no_balance" ELSE "no_map"
                /\ CallWithout(line_id).status = "returned"
                /\ CallWithout(line_id).out = call.res.out

\* the first line has no Map entry, the second is decremented after it
C4_Witness ==
    /\ Returned
    /\ Len(call.orders_after) = 2
    /\ LineMisses(1) /\ ~LineHasMapping(1)
    /\ LineSkuPresent(2)
    /\ \E r \in DOMAIN call.inventory_df :
          /\ LineConsumes(2, call.inventory_df[r].Item)
          /\ call.res.out[r].OnHand < call.inventory_df[r].OnHand
    /\ Len(call.res.warnings) = 1

(* C5: a newly-completed line with qty <= 0 alters no onHand and produces no
   warning, with or without a Map entry or an inventory record. *)
C5_NonPositiveQtyIsSilent ==
    Returned =>
        \A i \in DOMAIN call.orders_after :
            (LineNewlyCompleted(i) /\ call.orders_after[i].Qty <= 0) =>
                LET line_id == call.orders_after[i].LineId IN
                /\ WarningsFor(line_id) = {}
                /\ CallWithout(line_id).out = call.res.out
                /\ CallWithout(line_id).warnings = call.res.warnings

\* a line with qty 0 and no Map entry, and a line with a negative qty whose
\* balance size is no inventory key
C5_Witness ==
    /\ Returned
    /\ Len(call.orders_after) = 2
    /\ LineNewlyCompleted(1) /\ call.orders_after[1].Qty = 0 /\ ~LineHasMapping(1)
    /\ LineNewlyCompleted(2) /\ call.orders_after[2].Qty < 0
    /\ LineHasMapping(2) /\ ~LineHasBalance(2)
    /\ call.res.warnings = <<>>
    /\ OnHandUnchanged

(* C7: the returned ledger holds exactly the input's records (same keys, same
   minLevel, touched or not), lowStock of every record is onHand <= minLevel
   on the decremented onHand, and the rows saved carry no lowStock column. *)
C7_FullSnapshotWithLowStock ==
    Returned =>
        /\ Len(call.res.out) = Len(call.inventory_df)
        /\ \A r \in DOMAIN call.inventory_df :
              /\ call.res.out[r].Item = call.inventory_df[r].Item
              /\ call.res.out[r].MinLevel = call.inventory_df[r].MinLevel
              /\ call.res.out[r].LowStock =
                    (call.res.out[r].OnHand <= call.res.out[r].MinLevel)
              /\ DOMAIN InventoryOut(call.res.out)[r] = {"Item", "SKU", "OnHand", "MinLevel"}

\* a decrement takes one record from above its minLevel exactly down to it,
\* the other record is untouched
C7_Witness ==
    /\ Returned
    /\ \E r \in DOMAIN call.inventory_df :
          /\ ~call.inventory_df[r].LowStock
          /\ call.res.out[r].OnHand = call.res.out[r].MinLevel
          /\ call.res.out[r].LowStock
    /\ \E r \in DOMAIN call.inventory_df :
          /\ call.res.out[r].OnHand = call.inventory_df[r].OnHand
          /\ call.res.out[r].LowStock = call.inventory_df[r].LowStock

(* C8: reconcile raises no error for any input tables (duplicate lineId rows
   and duplicate balanceSize rows included); the batch is never aborted. *)
C8_NeverRaises == call.res.status # "raised"

(* C10: the lookup excludes the Map rows whose key is missing or blank, so a
   newly-completed line with qty > 0 whose sku is missing or blank never
   resolves: it gets the no-mapping warning whatever the Map sheet holds. *)
C10_MissingOrBlankSkuNeverResolves ==
    Returned =>
        /\ <<>> \notin DOMAIN MapLookup(call.map_df)
        /\ \A i \in DOMAIN call.orders_after :
              (LineNewlyCompleted(i) /\ call.orders_after[i].Qty > 0 /\ ~LineSkuPresent(i)) =>
                  \E k \in WarningsFor(call.orders_after[i].LineId) :
                      call.res.warnings[k].kind = "no_map"

-----------------------------------------------------------------------------
(* The sheets and their readers and writers *)

LowerChar(c) ==
    CASE c = "T" -> "t" [] c = "R" -> "r" [] c = "U" -> "u" [] c = "E" -> "e"
      [] c = "F" -> "f" [] c = "A" -> "a" [] c = "L" -> "l" [] c = "S" -> "s"
      [] c = "Y" -> "y" [] OTHER -> c

\* str.lower()
Lower(s) == [i \in DOMAIN s |-> LowerChar(s[i])]

TrueTokens == {<<"t", "r", "u", "e">>, <<"1">>, <<"y", "e", "s">>, <<"y">>, <<"t">>}

\* df["Completed"].astype(str).str.lower().isin(["true","1","yes","y","t"])
ParseCompleted(c) == Lower(AsStr(c)) \in TrueTokens

\* set_with_dataframe: a boolean goes to the sheet as TRUE / FALSE
BoolCell(b) == IF b THEN Txt(<<"T", "R", "U", "E">>) ELSE Txt(<<"F", "A", "L", "S", "E">>)

\* set_with_dataframe: a missing value and an empty text both leave the cell empty
TextCell(c) == IF IsNa(c) \/ c.s = <<>> THEN NaN ELSE c

\* read_inventory_sheet
read_inventory_sheet(rows) ==
    [i \in DOMAIN rows |->
        InvRow(rows[i].Item, ToIntOr(rows[i].OnHand, 0), ToIntOr(rows[i].MinLevel, 0))]

\* read_orders_sheet
read_orders_sheet(rows) ==
    [i \in DOMAIN rows |->
        [LineId      |-> rows[i].LineId,
         SKU         |-> rows[i].SKU,
         Qty         |-> ToIntOr(rows[i].Qty, 0),
         Completed   |-> ParseCompleted(rows[i].Completed),
         CompletedAt |-> rows[i].CompletedAt]]

\* write_inventory_sheet: ws.clear(); set_with_dataframe(ws, out)
InventorySheetOf(df) ==
    [i \in DOMAIN df |->
        [Item |-> TextCell(InventoryOut(df)[i].Item), SKU |-> TextCell(InventoryOut(df)[i].SKU),
         OnHand |-> Num(InventoryOut(df)[i].OnHand),
         MinLevel |-> Num(InventoryOut(df)[i].MinLevel)]]

\* variant: a row that is complete in the sheet is left as it is
OrdersSheetKeepingCompleted(old, df) ==
    [i \in DOMAIN df |->
        IF i \in DOMAIN old /\ ParseCompleted(old[i].Completed)
        THEN old[i]
        ELSE [LineId |-> df[i].LineId, SKU |-> TextCell(df[i].SKU),
              Qty |-> Num(df[i].Qty), Completed |-> BoolCell(df[i].Completed),
              CompletedAt |-> TextCell(df[i].CompletedAt)]]

\* write_orders_sheet: ws.clear(); set_with_dataframe(ws, out) replaces the sheet
OrdersSheetOf(old, df) ==
    [i \in DOMAIN df |->
        [LineId |-> df[i].LineId, SKU |-> TextCell(df[i].SKU),
         Qty |-> Num(df[i].Qty), Completed |-> BoolCell(df[i].Completed),
         CompletedAt |-> TextCell(df[i].CompletedAt)]]

CacheKeys == {"inv", "orders"}

\* st.cache_data(ttl=...): the cached value unless the entry is absent or its
\* ttl has passed, and then the function runs again
Cached(entry, isExpired, fresh) == IF entry.valid /\ ~isExpired THEN entry.df ELSE fresh

Filled(df) == [valid |-> TRUE, df |-> df]

Cleared == [valid |-> FALSE, df |-> <<>>]

-----------------------------------------------------------------------------
(* The Orders page: two browser sessions over one spreadsheet.              *)
(* Every interaction reruns the script, which reads the sheets through the  *)
(* shared read cache; a save handler then writes the inventory sheet and    *)
(* the orders sheet, one after the other, and either write can fail.        *)

Sessions == {1, 2}

LineIds == {1, 2}

\* the boxes a user ticks or flips before one click: none, or one line
Selections == {{}} \cup {{l} : l \in LineIds}

MaxClock == 3

SysOnHand == 9

SysMinLevel == 2

SysUnits == 2

Digits == <<"1", "2", "3", "4", "5", "6", "7", "8", "9">>

\* datetime.now(...).strftime(...) at clock value n
Stamp(n) == Txt(<<"t", Digits[n]>>)

MapSheet0 ==
    <<[JamlinerLength |-> Txt(<<"J">>), BalanceSize |-> Txt(<<"A">>),
       UnitsPerOrder |-> Num(SysUnits)]>>

InventorySheet0 ==
    <<[Item |-> Txt(<<"A">>), SKU |-> Txt(<<"J">>), OnHand |-> Num(SysOnHand),
       MinLevel |-> Num(SysMinLevel)]>>

\* two open lines for "J", of quantity 1 and 2; the CompletedAt cell of the
\* first is empty, that of the second holds a blank
OrdersSheet0 ==
    <<[LineId |-> 1, SKU |-> Txt(<<"J">>), Qty |-> Num(1), Completed |-> NaN,
       CompletedAt |-> NaN],
      [LineId |-> 2, SKU |-> Txt(<<" ", "J">>), Qty |-> Num(2),
       Completed |-> BoolCell(FALSE), CompletedAt |-> Txt(<<" ">>)]>>

Session0 ==
    [pc |-> "idle", mode |-> "simple", checks |-> {}, df |-> <<>>, orders_df |-> <<>>,
     after_df |-> <<>>, updated_inventory |-> <<>>, now |-> 0, msg |-> "none",
     reread |-> FALSE,
     failed_lines |-> {}, failed_base |-> <<>>, retry |-> FALSE, retry_base |-> <<>>]

Init ==
    /\ call = NoCall
    /\ sheet = [inv |-> InventorySheet0, orders |-> OrdersSheet0, meta |-> NaN,
                invWriter |-> 0, ordersWriter |-> 0]
    /\ cache = [inv |-> Cleared, orders |-> Cleared]
    /\ sess = [s \in Sessions |-> Session0]
    /\ clock = 1

\* the script's reads at the top of a run, through the cache; expired is the
\* set of entries whose ttl has passed when the run starts
LoadedInventory(expired) ==
    Cached(cache.inv, "inv" \in expired, read_inventory_sheet(sheet.inv))

LoadedOrders(expired) ==
    Cached(cache.orders, "orders" \in expired, read_orders_sheet(sheet.orders))

LoadedMap == read_map_sheet(MapSheet0)

CacheAfterRun(expired) ==
    [inv |-> Filled(LoadedInventory(expired)), orders |-> Filled(LoadedOrders(expired))]

\* not str(CompletedAt or "").strip()
NeedsStamp(c) == Strip(AsStr(c)) = <<>>

\* the first row whose LineId is lid (row_idx[0])
FirstRow(df, lid) == CHOOSE i \in Loc(df, "LineId", lid) : \A j \in Loc(df, "LineId", lid) : i <= j

\* simple checkbox mode: after_df from the ticked lines
CheckedAfter(orders_df, checks, now) ==
    [i \in DOMAIN orders_df |->
        IF /\ orders_df[i].LineId \in checks
           /\ i = FirstRow(orders_df, orders_df[i].LineId)
           /\ ~orders_df[i].Completed
        THEN [orders_df[i] EXCEPT
                !.Completed = TRUE,
                !.CompletedAt = IF NeedsStamp(@) THEN Stamp(now) ELSE @]
        ELSE orders_df[i]]

\* table edit mode: merged_orders from the rows whose Completed box was flipped
MergedOrders(orders_df, flips, now) ==
    [i \in DOMAIN orders_df |->
        LET cur == IF orders_df[i].LineId \in flips THEN ~orders_df[i].Completed
                   ELSE orders_df[i].Completed
        IN  [orders_df[i] EXCEPT
                !.Completed = cur,
                !.CompletedAt =
                    IF (~orders_df[i].Completed) /\ cur /\ NeedsStamp(@)
                    THEN Stamp(now) ELSE @]]

NewlyCompletedIds(before, after) ==
    {after[i].LineId : i \in {j \in DOMAIN after :
        IsNewlyCompleted(Was(before, after[j].LineId), after[j].Completed)}}

\* the try block up to the first write, common to both handlers
StartCommit(s, mode, ticked, df, orders_df, after_df) ==
    LET res   == apply_completions_update_inventory(orders_df, after_df, df, LoadedMap)
        lines == NewlyCompletedIds(orders_df, after_df)
        again == sess[s].failed_lines # {} /\ lines = sess[s].failed_lines
    IN
    sess' = [sess EXCEPT ![s] =
                [@ EXCEPT !.pc = IF res.status = "returned" THEN "write_inv" ELSE "idle",
                          !.msg = IF res.status = "returned" THEN "none" ELSE "failed",
                          !.mode = mode,
                          !.checks = ticked,
                          !.df = df,
                          !.reread = (df = read_inventory_sheet(sheet.inv)),
                          !.orders_df = orders_df,
                          !.after_df = after_df,
                          !.updated_inventory = res.out,
                          !.now = clock,
                          !.retry = again,
                          !.retry_base = IF again THEN sess[s].failed_base ELSE <<>>,
                          !.failed_lines = {},
                          !.failed_base = <<>>]]

\* an interaction of some session that only reruns the script (a filter, a
\* tick not yet followed by the button): the sheets are read through the cache.
\* The run of a button click reads through the cache as the last run left it:
\* a click after a ttl has passed is this action followed by the click.
Rerun(expired) ==
    /\ cache' = CacheAfterRun(expired)
    /\ UNCHANGED <<call, sheet, sess, clock>>

\* "Mark selected complete & update inventory", clicked with the boxes of
\* ticked set (complete_checks keeps them in the session state); with no box
\* ticked the handler only shows st.info
ClickMarkComplete(s, ticked) ==
    LET df        == LoadedInventory({})
        orders_df == LoadedOrders({})
    IN
    /\ sess[s].pc = "idle"
    /\ clock < MaxClock
    /\ \E i \in DOMAIN orders_df : ~orders_df[i].Completed
    /\ IF ticked = {}
       THEN /\ sess' = [sess EXCEPT ![s] =
                          [Session0 EXCEPT !.msg = "info", !.now = sess[s].now]]
            /\ clock' = clock
       ELSE /\ StartCommit(s, "simple", ticked, df, orders_df,
                           CheckedAfter(orders_df, ticked, clock))
            /\ clock' = clock + 1
    /\ cache' = CacheAfterRun({})
    /\ UNCHANGED <<call, sheet>>

\* "Save Orders & Update Inventory" with the boxes of flips toggled in the table
ClickSaveTable(s, flips) ==
    LET df        == LoadedInventory({})
        orders_df == LoadedOrders({})
    IN
    /\ sess[s].pc = "idle"
    /\ clock < MaxClock
    /\ StartCommit(s, "table", sess[s].checks, df, orders_df,
                   MergedOrders(orders_df, flips, clock))
    /\ cache' = CacheAfterRun({})
    /\ clock' = clock + 1
    /\ UNCHANGED <<call, sheet>>

\* variant: a failure of the Meta update leaves write_inventory_sheet by an
\* exception, which the handler reports
AfterMetaUpdateRaising(sn, metaOk) ==
    IF metaOk THEN [sn EXCEPT !.pc = "write_orders"]
    ELSE [sn EXCEPT !.pc = "idle", !.msg = "failed"]

\* the session after the Meta update of write_inventory_sheet:
\* except Exception: pass, and the handler goes on to write_orders_sheet
AfterMetaUpdate(sn, metaOk) == [sn EXCEPT !.pc = "write_orders"]

\* write_inventory_sheet succeeds; the Meta stamp is written or its failure swallowed
WriteInventoryOk(s, metaOk) ==
    /\ sess[s].pc = "write_inv"
    /\ sheet' = [sheet EXCEPT !.inv = InventorySheetOf(sess[s].updated_inventory),
                              !.meta = IF metaOk THEN Stamp(clock) ELSE @,
                              !.invWriter = s]
    /\ sess' = [sess EXCEPT ![s] = AfterMetaUpdate(@, metaOk)]
    /\ UNCHANGED <<call, cache, clock>>

\* variant: the orders table is written although the inventory write raised
OrdersWrittenAnyway(stored, after_df) == OrdersSheetOf(stored, after_df)

\* write_inventory_sheet raised: write_orders_sheet, the next statement of the
\* try block, is not reached
OrdersAfterInventoryFailure(stored, after_df) == stored

\* write_inventory_sheet raises: except Exception -> st.error
WriteInventoryFail(s) ==
    /\ sess[s].pc = "write_inv"
    /\ sheet' = [sheet EXCEPT !.orders = OrdersAfterInventoryFailure(@, sess[s].after_df)]
    /\ sess' = [sess EXCEPT ![s] =
                  [@ EXCEPT !.pc = "idle", !.msg = "failed", !.reread = FALSE,
                            !.retry = FALSE, !.retry_base = <<>>]]
    /\ UNCHANGED <<call, cache, clock>>

\* write_orders_sheet succeeds: st.success, checks reset, st.cache_data.clear()
\* and st.rerun(), whose reads fill the cache from the sheets as written
WriteOrdersOk(s) ==
    /\ sess[s].pc = "write_orders"
    /\ sheet' = [sheet EXCEPT !.orders = OrdersSheetOf(sheet.orders, sess[s].after_df),
                              !.ordersWriter = s]
    /\ sess' = [sess EXCEPT ![s] =
                  [@ EXCEPT !.pc = "idle", !.msg = "saved", !.reread = FALSE,
                            !.retry = FALSE, !.retry_base = <<>>,
                            !.checks = IF sess[s].mode = "simple" THEN {} ELSE @]]
    /\ cache' = [inv |-> Filled(read_inventory_sheet(sheet'.inv)),
                 orders |-> Filled(read_orders_sheet(sheet'.orders))]
    /\ UNCHANGED <<call, clock>>

\* variant: the inventory written by the failed commit is put back
InventoryAfterFailedCommit(stored, snapshot) == InventorySheetOf(snapshot)

\* except Exception -> st.error: what was written stays written
InventoryAfterOrdersFailure(stored, snapshot) == stored

\* write_orders_sheet raises after the inventory was written
WriteOrdersFail(s) ==
    /\ sess[s].pc = "write_orders"
    /\ sheet' = [sheet EXCEPT !.inv = InventoryAfterOrdersFailure(@, sess[s].df)]
    /\ sess' = [sess EXCEPT ![s] =
                  [@ EXCEPT !.pc = "idle", !.msg = "failed", !.reread = FALSE,
                            !.retry = FALSE, !.retry_base = <<>>,
                            !.failed_lines = NewlyCompletedIds(sess[s].orders_df,
                                                               sess[s].after_df),
                            !.failed_base = sess[s].df]]
    /\ UNCHANGED <<call, cache, clock>>

Next ==
    \/ \E expired \in SUBSET CacheKeys : Rerun(expired)
    \/ \E s \in Sessions, ticked \in Selections : ClickMarkComplete(s, ticked)
    \/ \E s \in Sessions, flips \in Selections : ClickSaveTable(s, flips)
    \/ \E s \in Sessions, metaOk \in BOOLEAN : WriteInventoryOk(s, metaOk)
    \/ \E s \in Sessions : WriteInventoryFail(s)
    \/ \E s \in Sessions : WriteOrdersOk(s)
    \/ \E s \in Sessions : WriteOrdersFail(s)

Spec == Init /\ [][Next]_vars

-----------------------------------------------------------------------------
(* Claims about the Orders page *)

OtherSession(s) == CHOOSE o \in Sessions : o # s

\* the session has started no commit
NeverCommitted(s) == sess[s].pc = "idle" /\ sess[s].now = 0

StoredOnHand == sheet.inv[1].OnHand.n

StoredCompleted(l) ==
    \E i \in DOMAIN sheet.orders :
        sheet.orders[i].LineId = l /\ ParseCompleted(sheet.orders[i].Completed)

\* the lines the session's last commit newly completed
CommitLines(s) == NewlyCompletedIds(sess[s].orders_df, sess[s].after_df)

\* qty * unitsPerOrder of the one line of the session's last commit
CommitCost(s) ==
    LET l == CHOOSE x \in CommitLines(s) : TRUE
    IN  At(sess[s].after_df, "LineId", l, "Qty") * SysUnits

\* the orders write of a one-line commit failed, and nobody else has committed
FailureWindow(s) ==
    /\ sess[s].pc = "idle"
    /\ sess[s].msg = "failed"
    /\ Cardinality(sess[s].failed_lines) = 1
    /\ NeverCommitted(OtherSession(s))

\* the retry of a one-line commit whose orders write failed has written the
\* inventory, and nobody else has committed
RetryWritten(s) ==
    /\ sess[s].retry
    /\ sess[s].pc = "write_orders"
    /\ Cardinality(CommitLines(s)) = 1
    /\ sheet.invWriter = s
    /\ NeverCommitted(OtherSession(s))

\* C3 as stated: after an orders-write failure, retrying the same one-line
\* completion always leaves the stored onHand at initial - 2 * qty * unitsPerOrder
C3_RetryAlwaysDoubleApplies ==
    \A s \in Sessions :
        RetryWritten(s) =>
            StoredOnHand = sess[s].retry_base[1].OnHand - 2 * CommitCost(s)

\* C3: when the inventory write succeeds and the orders write fails, the stored
\* inventory carries the decrement and the stored line is not complete; the
\* retry decrements the inventory snapshot its run reads, so the stored onHand
\* ends at initial - 2 * qty * unitsPerOrder when that run's snapshot is the
\* sheet as stored, and at initial - qty * unitsPerOrder when it is the cached
\* snapshot of the failed commit
C3_RetryDoubleAppliesOnFreshRead ==
    \A s \in Sessions :
        /\ FailureWindow(s) =>
              /\ StoredOnHand = sess[s].failed_base[1].OnHand - CommitCost(s)
              /\ \A l \in sess[s].failed_lines : ~StoredCompleted(l)
        /\ RetryWritten(s) =>
              /\ StoredOnHand = sess[s].df[1].OnHand - CommitCost(s)
              /\ sess[s].reread =>
                    StoredOnHand = sess[s].retry_base[1].OnHand - 2 * CommitCost(s)
              /\ sess[s].df = sess[s].retry_base =>
                    StoredOnHand = sess[s].retry_base[1].OnHand - CommitCost(s)

C3_Witness ==
    \E s \in Sessions :
        /\ RetryWritten(s)
        /\ sess[s].reread
        /\ StoredOnHand = sess[s].retry_base[1].OnHand - 2 * CommitCost(s)

\* a CompletedAt cell with nothing in it
EmptyCell(c) == IsNa(c) \/ (c.k = "txt" /\ Strip(c.s) = <<>>)

\* C6: a commit sets the stored completedAt of a line exactly when its stored
\* completed goes false->true with completedAt empty, to that commit's
\* timestamp; a non-empty completedAt is never changed or cleared, and an
\* empty one stays empty otherwise
C6_CompletedAtSetOnceOnCompletion ==
    [][\A i \in DOMAIN sheet.orders :
          LET old  == sheet.orders[i]
              new  == sheet'.orders[i]
              goes == (~ParseCompleted(old.Completed)) /\ ParseCompleted(new.Completed)
          IN  /\ ~EmptyCell(old.CompletedAt) => new.CompletedAt = old.CompletedAt
              /\ (EmptyCell(old.CompletedAt) /\ goes) =>
                    \E s \in Sessions : /\ sess[s].pc = "write_orders"
                                        /\ sheet'.ordersWriter = s
                                        /\ new.CompletedAt = Stamp(sess[s].now)
              /\ (EmptyCell(old.CompletedAt) /\ ~goes) => EmptyCell(new.CompletedAt)
      ]_vars

\* two sessions committed one line each, different lines, from the same
\* inventory and orders snapshots, and both were told "Saved"
TwoSessionsCommitted ==
    /\ \A s \in Sessions : /\ sess[s].pc = "idle"
                           /\ sess[s].msg = "saved"
                           /\ Cardinality(CommitLines(s)) = 1
    /\ sess[1].df = sess[2].df
    /\ sess[1].orders_df = sess[2].orders_df
    /\ CommitLines(1) # CommitLines(2)

\* the stored inventory carries the decrement of w's commit and no other
InventoryReflectsOnly(w) == StoredOnHand = sess[w].df[1].OnHand - CommitCost(w)

\* the stored orders mark w's line complete and not the other session's
OrdersMarkOnly(w) ==
    \A l \in LineIds :
        StoredCompleted(l) <=> (l \in CommitLines(w) \/ Was(sess[w].orders_df, l))

\* C9 as stated: one session is the second writer of both tables, the one
\* whose commit ended last; the stored inventory reflects only its decrement
\* and the stored orders mark only its line
C9_SecondSessionWinsBothTables ==
    TwoSessionsCommitted =>
        /\ InventoryReflectsOnly(sheet.ordersWriter)
        /\ OrdersMarkOnly(sheet.ordersWriter)

\* C9: last writer wins table by table: the stored inventory reflects only the
\* decrement of the session whose inventory write came last, the stored orders
\* mark only the line of the session whose orders write came last, and neither
\* session is shown an error
C9_LastWriterWinsPerTable ==
    TwoSessionsCommitted =>
        /\ sheet.invWriter \in Sessions
        /\ sheet.ordersWriter \in Sessions
        /\ InventoryReflectsOnly(sheet.invWriter)
        /\ OrdersMarkOnly(sheet.ordersWriter)
        /\ \A s \in Sessions : sess[s].msg # "failed"

C9_Witness ==
    /\ TwoSessionsCommitted
    /\ sheet.invWriter = sheet.ordersWriter
    /\ InventoryReflectsOnly(sheet.ordersWriter)

\* a step in which session s's inventory table write succeeded: s leaves the
\* inventory write and the spreadsheet has changed
InventoryWriteSucceeded(s) ==
    /\ sess[s].pc = "write_inv"
    /\ sess'[s] # sess[s]
    /\ sheet' # sheet

\* C11: whenever the inventory table write of a commit succeeds, the session
\* goes on to the orders write with nothing else changed and no error shown,
\* whether the Meta last_updated stamp was written or its write failed
C11_MetaFailureIsSwallowed ==
    [][\A s \in Sessions :
          InventoryWriteSucceeded(s) =>
              /\ sheet'.inv = InventorySheetOf(sess[s].updated_inventory)
              /\ sheet'.meta \in {sheet.meta, Stamp(clock)}
              /\ sess'[s] = [sess[s] EXCEPT !.pc = "write_orders"]
              /\ sess'[s].msg # "failed"
      ]_vars

\* a commit ran to "Saved" although no Meta stamp was ever written
C11_Witness ==
    \E s \in Sessions :
        /\ sess[s].msg = "saved"
        /\ sheet.ordersWriter = s
        /\ sheet.invWriter = s
        /\ sheet.meta = NaN
        /\ sheet.inv # InventorySheet0

\* a step of session s's handler that ends its commit with "Save failed"
CommitFails(s) ==
    /\ sess[s].pc \in {"write_inv", "write_orders"}
    /\ sess'[s].pc = "idle"
    /\ sess'[s].msg = "failed"

\* C12: a session reaches its orders write only by the step in which the
\* inventory write of the same commit succeeds; the stored orders change only
\* in a session's successful orders write; a failed inventory write ends the
\* commit with the spreadsheet as it was; a failed commit changes neither the
\* stored orders nor the session's ticked boxes, which are reset only by the
\* step that ends a commit with both writes done
C12_OrdersWriteOnlyAfterInventoryWrite ==
    [][/\ \A s \in Sessions :
            /\ (sess[s].pc # "write_orders" /\ sess'[s].pc = "write_orders") =>
                  /\ sess[s].pc = "write_inv"
                  /\ sheet'.inv = InventorySheetOf(sess[s].updated_inventory)
                  /\ sheet'.invWriter = s
                  /\ sheet'.orders = sheet.orders
            /\ (CommitFails(s) /\ sess[s].pc = "write_inv") =>
                  /\ sheet'.orders = sheet.orders
                  /\ sheet'.inv = sheet.inv
            /\ CommitFails(s) =>
                  /\ sheet'.orders = sheet.orders
                  /\ sess'[s].checks = sess[s].checks
            /\ (sess[s].pc # "idle" /\ sess'[s].checks # sess[s].checks) =>
                  /\ sess[s].pc = "write_orders"
                  /\ sess'[s].msg = "saved"
       /\ sheet'.orders # sheet.orders =>
            \E s \in Sessions : /\ sess[s].pc = "write_orders"
                                /\ sess'[s].msg = "saved"
                                /\ sheet'.ordersWriter = s
                                /\ sheet'.orders = OrdersSheetOf(sheet.orders, sess[s].after_df)
      ]_vars

\* a checkbox commit whose inventory write failed: the spreadsheet is as it
\* was and the ticked boxes are still ticked
C12_Witness ==
    \E s \in Sessions :
        /\ sess[s].pc = "idle"
        /\ sess[s].msg = "failed"
        /\ sess[s].mode = "simple"
        /\ sess[s].failed_lines = {}
        /\ CommitLines(s) # {}
        /\ sess[s].checks = CommitLines(s)
        /\ sheet.orders = OrdersSheet0
        /\ sheet.inv = InventorySheet0

=============================================================================
